---- MODULE Spec2Model ----
(***************************************************************************)
(* A model of rebecca.go: the CodeMap index builder (scanDir, scanTests,   *)
(* scanPkg), the doc lookup with its sentence-slice language (DocFunc,     *)
(* extractSections, checkBounds) and the example renderer (ExampleFunc).   *)
(*                                                                         *)
(* Go strings are sequences of one-character strings, so that Split, Trim, *)
(* Index, the regular expressions and Atoi are computed character by       *)
(* character, as the code computes them.  A panic is a result record whose *)
(* kind names the panic's message.                                         *)
(***************************************************************************)
EXTENDS Integers, Sequences, FiniteSets, TLC

VARIABLES Comments, Examples, dir, pc, call, result

vars == <<Comments, Examples, dir, pc, call, result>>

(***************************************************************************)
(* Bounds of the model.                                                    *)
(***************************************************************************)
\* sentence candidates in a generated doc text
MaxSent == 3
\* largest index written in a slice token
MaxIdx == 3
\* tokens in a generated slice spec
MaxTokens == 3
\* declarations in a generated source file
MaxDecls == 1
\* body lines of a generated example
MaxLines == 2

(***************************************************************************)
(* The strings package.                                                    *)
(***************************************************************************)
Str == <<>>

\* the sequences over S of length lo..hi
SeqsOf(S, lo, hi) == UNION {[1..n -> S] : n \in lo..hi}

RECURSIVE Flatten(_)
Flatten(ss) == IF ss = <<>> THEN <<>> ELSE Head(ss) \o Flatten(Tail(ss))

\* the tail of a string from 1-based position i on
From(s, i) == SubSeq(s, i, Len(s))

HasPrefixAt(s, i, sub) ==
    /\ i + Len(sub) - 1 <= Len(s)
    /\ \A k \in 1..Len(sub) : s[i + k - 1] = sub[k]

\* the first 1-based position from i on where sub occurs, 0 when none
RECURSIVE IndexFrom(_, _, _)
IndexFrom(s, sub, i) ==
    IF i + Len(sub) - 1 > Len(s) THEN 0
    ELSE IF HasPrefixAt(s, i, sub) THEN i
    ELSE IndexFrom(s, sub, i + 1)

\* strings.Index, 0-based, -1 when sub does not occur
Index(s, sub) == IndexFrom(s, sub, 1) - 1

Contains(s, sub) == Index(s, sub) >= 0

HasSuffix(s, suf) ==
    /\ Len(suf) <= Len(s)
    /\ SubSeq(s, Len(s) - Len(suf) + 1, Len(s)) = suf

\* strings.Split(s, sep) for a one-character sep: always at least one piece
RECURSIVE Split(_, _)
Split(s, sep) ==
    LET i == Index(s, <<sep>>)
    IN  IF i < 0 THEN <<s>>
        ELSE <<SubSeq(s, 1, i)>> \o Split(From(s, i + 2), sep)

RECURSIVE TrimLeft(_, _)
TrimLeft(s, cutset) ==
    IF s # <<>> /\ Head(s) \in cutset THEN TrimLeft(Tail(s), cutset) ELSE s

RECURSIVE TrimRight(_, _)
TrimRight(s, cutset) ==
    IF s # <<>> /\ s[Len(s)] \in cutset
    THEN TrimRight(SubSeq(s, 1, Len(s) - 1), cutset)
    ELSE s

\* strings.Trim(s, cutset)
Trim(s, cutset) == TrimRight(TrimLeft(s, cutset), cutset)

\* strings.Replace(s, old, new, -1) for one-character old and new
Replace(s, old, new) == [i \in 1..Len(s) |-> IF s[i] = old THEN new ELSE s[i]]

(***************************************************************************)
(* The slice tokens: regular expressions and Atoi.                         *)
(***************************************************************************)
Digits == <<"0", "1", "2", "3", "4", "5", "6", "7", "8", "9">>

DigitChars == {Digits[i] : i \in 1..Len(Digits)}

DigitVal(c) == (CHOOSE i \in 1..Len(Digits) : Digits[i] = c) - 1

\* \d+
IsDigits(s) == s # <<>> /\ \A i \in 1..Len(s) : s[i] \in DigitChars

\* strconv.Atoi on a string of digits (the model's numbers stay far below
\* the int range, where Atoi fails and mustInt panics)
RECURSIVE mustInt(_)
mustInt(s) ==
    IF s = <<>> THEN 0
    ELSE 10 * mustInt(SubSeq(s, 1, Len(s) - 1)) + DigitVal(s[Len(s)])

\* the decimal digits of n: what a writer of a slice spec types
RECURSIVE Itoa(_)
Itoa(n) == IF n < 10 THEN <<Digits[n + 1]>>
           ELSE Itoa(n \div 10) \o <<Digits[(n % 10) + 1]>>

Colon(s) == Index(s, <<":">>) + 1

\* ^(\d+):(\d+)$
bothRegex(s) ==
    /\ Colon(s) > 0
    /\ IsDigits(SubSeq(s, 1, Colon(s) - 1))
    /\ IsDigits(From(s, Colon(s) + 1))

\* ^(\d+):$
fromRegex(s) ==
    /\ s # <<>>
    /\ s[Len(s)] = ":"
    /\ IsDigits(SubSeq(s, 1, Len(s) - 1))

\* ^:(\d+)$
toRegex(s) == s # <<>> /\ Head(s) = ":" /\ IsDigits(Tail(s))

\* ^(\d+)$
singleRegex(s) == IsDigits(s)

(***************************************************************************)
(* Results: a returned string, or the panic that ended the call.           *)
(***************************************************************************)
Ok(text) ==
    [kind |-> "ok", text |-> text, index |-> -1, length |-> -1, spec |-> Str]

Panic(kind, index, length, spec) ==
    [kind |-> kind, text |-> Str, index |-> index, length |-> length,
     spec |-> spec]

NoResult == Panic("none", -1, -1, Str)

NoCall == [op |-> "none"]

(***************************************************************************)
(* checkBounds: the panic it raises, or Ok when it returns.                *)
(***************************************************************************)
\* mutant: the end is compared with the length before the start is
checkBoundsEndFirst(start, end, length, spec) ==
    IF end = 0 THEN Panic("EndZero", -1, -1, spec)
    ELSE IF end >= length THEN Panic("OutOfRange", end, length, spec)
    ELSE IF start >= length THEN Panic("OutOfRange", start, length, spec)
    ELSE IF end > -1 /\ start >= end THEN Panic("Order", -1, -1, spec)
    ELSE Ok(Str)

\* mutant: a start equal to the end passes the order check
checkBoundsLaxOrder(start, end, length, spec) ==
    IF end = 0 THEN Panic("EndZero", -1, -1, spec)
    ELSE IF start >= length THEN Panic("OutOfRange", start, length, spec)
    ELSE IF end >= length THEN Panic("OutOfRange", end, length, spec)
    ELSE IF end > -1 /\ start > end THEN Panic("Order", -1, -1, spec)
    ELSE Ok(Str)

checkBounds(start, end, length, spec) ==
    IF end = 0 THEN Panic("EndZero", -1, -1, spec)
    ELSE IF start >= length THEN Panic("OutOfRange", start, length, spec)
    ELSE IF end >= length THEN Panic("OutOfRange", end, length, spec)
    ELSE IF end > -1 /\ start >= end THEN Panic("Order", -1, -1, spec)
    ELSE Ok(Str)

\* the sentences of a comment: the pieces between "." whose trimmed form is
\* not empty, kept untrimmed
Sentances(comment) ==
    SelectSeq(Split(comment, "."), LAMBDA s : Trim(s, {" ", "\n"}) # <<>>)

\* whether Go's s[lo:hi] (0-based, half-open) is within the slice; outside,
\* the runtime panics
InSlice(s, lo, hi) == 0 <= lo /\ lo <= hi /\ hi <= Len(s)

GoSlice(s, lo, hi) == SubSeq(s, lo + 1, hi)

\* the appended text of the selected sentences arr
Render(arr) ==
    Flatten([k \in 1..Len(arr) |->
        IF Trim(arr[k], {" ", "\n"}) # <<>> THEN arr[k] \o <<".">> ELSE <<>>])

\* sentances[lo:hi] after checkBounds(start, end, ...): the panic raised, or
\* Ok with the text the section appends to out
Select(start, end, lo, hi, sentances, full) ==
    LET chk == checkBounds(start, end, Len(sentances), full)
    IN  IF chk.kind # "ok" THEN chk
        ELSE IF ~InSlice(sentances, lo, hi)
        THEN Panic("RuntimeError", -1, -1, full)
        ELSE Ok(Render(GoSlice(sentances, lo, hi)))

\* one section of the loop
Section(section, sentances, full) ==
    LET n == Len(sentances)
        c == Colon(section)
    IN  IF bothRegex(section)
        THEN LET i == mustInt(SubSeq(section, 1, c - 1))
                 j == mustInt(From(section, c + 1))
             IN  Select(i, j, i, j, sentances, full)
        ELSE IF fromRegex(section)
        THEN LET i == mustInt(SubSeq(section, 1, Len(section) - 1))
             IN  Select(i, -1, i, n, sentances, full)
        ELSE IF toRegex(section)
        THEN LET j == mustInt(Tail(section))
             IN  Select(-1, j, 0, j, sentances, full)
        ELSE IF singleRegex(section)
        THEN LET i == mustInt(section)
             IN  Select(i, -1, i, i + 1, sentances, full)
        ELSE Panic("InvalidSection", -1, -1, full)

\* the loop over the sections, in the order Split lists them; the first
\* panic ends the call
\* mutant: each section's text is put before what is already in out
RECURSIVE SectionsPrepended(_, _, _, _)
SectionsPrepended(secs, sentances, full, out) ==
    IF secs = <<>> THEN Ok(out)
    ELSE LET r == Section(Head(secs), sentances, full)
         IN  IF r.kind # "ok" THEN r
             ELSE SectionsPrepended(Tail(secs), sentances, full, r.text \o out)

RECURSIVE Sections(_, _, _, _)
Sections(secs, sentances, full, out) ==
    IF secs = <<>> THEN Ok(out)
    ELSE LET r == Section(Head(secs), sentances, full)
         IN  IF r.kind # "ok" THEN r
             ELSE Sections(Tail(secs), sentances, full, out \o r.text)

\* mutant: out is returned without the final trim
extractSectionsUntrimmed(full, sections, comment) ==
    Sections(Split(sections, ","), Sentances(comment), full, Str)

extractSections(full, sections, comment) ==
    LET r == Sections(Split(sections, ","), Sentances(comment), full, Str)
    IN  IF r.kind # "ok" THEN r ELSE Ok(Trim(r.text, {" "}))

(***************************************************************************)
(* DocFunc and its regular expression (\w+)\[([0-9:, ]+)\].                *)
(***************************************************************************)
Upper == <<"A", "B", "C", "D", "E", "F", "G", "H", "I", "J", "K", "L", "M",
           "N", "O", "P", "Q", "R", "S", "T", "U", "V", "W", "X", "Y", "Z">>

Lower == <<"a", "b", "c", "d", "e", "f", "g", "h", "i", "j", "k", "l", "m",
           "n", "o", "p", "q", "r", "s", "t", "u", "v", "w", "x", "y", "z">>

UpperChars == {Upper[i] : i \in 1..Len(Upper)}

LowerChars == {Lower[i] : i \in 1..Len(Lower)}

\* \w
WordChars == UpperChars \cup LowerChars \cup DigitChars \cup {"_"}

\* [0-9:, ]
SpecChars == DigitChars \cup {":", ",", " "}

\* the end (exclusive) of the longest run of characters of class from i on
RECURSIVE RunEnd(_, _, _)
RunEnd(s, i, class) ==
    IF i <= Len(s) /\ s[i] \in class THEN RunEnd(s, i + 1, class) ELSE i

\* whether docRegex matches starting at position i
docRegexAt(s, i) ==
    LET k == RunEnd(s, i, WordChars)
        m == RunEnd(s, k + 1, SpecChars)
    IN  /\ k > i
        /\ k <= Len(s) /\ s[k] = "["
        /\ m > k + 1
        /\ m <= Len(s) /\ s[m] = "]"

\* the leftmost position from i on where docRegex matches, 0 when none
RECURSIVE docRegexFrom(_, _)
docRegexFrom(s, i) ==
    IF i > Len(s) THEN 0
    ELSE IF docRegexAt(s, i) THEN i
    ELSE docRegexFrom(s, i + 1)

\* docRegex.FindStringSubmatch: the leftmost match's two groups, or nil
docRegex(s) ==
    LET i == docRegexFrom(s, 1)
        k == RunEnd(s, i, WordChars)
        m == RunEnd(s, k + 1, SpecChars)
    IN  IF i = 0 THEN [matched |-> FALSE, id |-> Str, sections |-> Str]
        ELSE [matched |-> TRUE, id |-> SubSeq(s, i, k - 1),
              sections |-> SubSeq(s, k + 1, m - 1)]

DocFunc(comments, in) ==
    LET matches == docRegex(in)
    IN  IF matches.matched
        THEN IF matches.id \notin DOMAIN comments
             THEN Panic("NotFound", -1, -1, in)
             ELSE extractSections(in, matches.sections, comments[matches.id])
        ELSE IF in \notin DOMAIN comments
             THEN Panic("NotFound", -1, -1, in)
             ELSE Ok(Trim(comments[in], {"\n"}))

\* a map with no key
EmptyMap == <<>>

(***************************************************************************)
(* Inputs of the slice resolver.                                           *)
(***************************************************************************)
\* sentence candidates: plain, wrapped in a space and a line break, blank
Pieces == {<<"A">>, <<" ", "B", "\n">>, <<" ">>}

\* each candidate followed by "."
Dotted(ps) == Flatten([k \in 1..Len(ps) |-> ps[k] \o <<".">>])

\* doc texts as CommentGroup.Text gives them: empty, or up to MaxSent
\* candidates and the closing line break
Texts ==
    {<<>>} \cup {Dotted(ps) \o <<"\n">> : ps \in SeqsOf(Pieces, 1, MaxSent)}

Nums == {Itoa(n) : n \in 0..MaxIdx}

\* the four token forms, and tokens of no form
Tokens ==
    Nums
    \cup {i \o <<":">> : i \in Nums}
    \cup {<<":">> \o j : j \in Nums}
    \cup {i \o <<":">> \o j : i \in Nums, j \in Nums}
    \cup {<<":">>, <<" ", "1">>, <<"1", ":", "2", ":">>}

\* the tokens written before the last one of a spec
EarlyTokens == {<<"0">>, <<"2">>}

RECURSIVE Join(_, _)
Join(ss, sep) ==
    IF ss = <<>> THEN <<>>
    ELSE IF Len(ss) = 1 THEN ss[1]
    ELSE ss[1] \o <<sep>> \o Join(Tail(ss), sep)

\* token lists: up to MaxTokens tokens, any token last
TokenLists ==
    {es \o <<t>> : es \in SeqsOf(EarlyTokens, 0, MaxTokens - 1), t \in Tokens}

\* the key the resolver's doc text is stored under
K == <<"K">>

\* the template request "K[sections]"
Request(key, sections) == key \o <<"[">> \o sections \o <<"]">>

(***************************************************************************)
(* The slice resolver: an index holding one doc text, and one request      *)
(* "K[sections]" to DocFunc.                                               *)
(***************************************************************************)
Init ==
    /\ \E comment \in Texts : Comments = (K :> comment)
    /\ Examples = EmptyMap
    /\ dir = <<>>
    /\ pc = "built"
    /\ call = NoCall
    /\ result = NoResult

Resolve ==
    /\ pc = "built"
    /\ call = NoCall
    /\ \E tokens \in TokenLists :
         LET in == Request(K, Join(tokens, ","))
         IN  /\ call' = [op |-> "DocFunc", in |-> in, tokens |-> tokens]
             /\ result' = DocFunc(Comments, in)
    /\ UNCHANGED <<Comments, Examples, dir, pc>>

Next == Resolve

Spec == Init /\ [][Next]_vars

(***************************************************************************)
(* Doc lookup by key: an index of several keys, dotted ones among them,    *)
(* and one request to DocFunc, whole-entry or sliced.                      *)
(***************************************************************************)
\* a method or field key, the bare name after its dot, a type name, and a
\* file key
DocKeys == {<<"T", ".", "M">>, <<"M">>, <<"T">>, <<"a", "_", "g", "o">>}

DocTexts == {<<"A", ".", " ", "B", ".", "\n">>, <<"C", ".", "\n">>}

\* the indexes a build can leave: any of the keys, each with a doc text
DocIndexes ==
    UNION {[ks -> DocTexts] : ks \in SUBSET DocKeys}

\* slice specs of a request; none for a whole-entry request
DocSections == {<<"0">>, <<"1">>, <<":", "1">>, <<"0", ",", "0">>}

DocInit ==
    /\ Comments \in DocIndexes
    /\ Examples = EmptyMap
    /\ dir = <<>>
    /\ pc = "built"
    /\ call = NoCall
    /\ result = NoResult

\* {{ doc "Key" }}
LookupWhole ==
    /\ pc = "built"
    /\ call = NoCall
    /\ \E key \in DocKeys :
         /\ call' = [op |-> "DocFunc", in |-> key, key |-> key,
                     sliced |-> FALSE, sections |-> Str]
         /\ result' = DocFunc(Comments, key)
    /\ UNCHANGED <<Comments, Examples, dir, pc>>

\* {{ doc "Key[sections]" }}
LookupSliced ==
    /\ pc = "built"
    /\ call = NoCall
    /\ \E key \in DocKeys, sections \in DocSections :
         /\ call' = [op |-> "DocFunc", in |-> Request(key, sections),
                     key |-> key, sliced |-> TRUE, sections |-> sections]
         /\ result' = DocFunc(Comments, Request(key, sections))
    /\ UNCHANGED <<Comments, Examples, dir, pc>>

DocNext == LookupWhole \/ LookupSliced

SpecDoc == DocInit /\ [][DocNext]_vars

(***************************************************************************)
(* The index builder: scanDir, scanTests, scanPkg.                         *)
(*                                                                         *)
(* A parsed file is [path, pkg, doc, decls, examples]: doc is the text of  *)
(* the file comment, examples what doc.Examples finds in it.  A            *)
(* declaration is a FuncDecl [kind |-> "func", name, doc, recv], recv      *)
(* being NoRecv or [star, type], or a GenDecl [kind |-> "gen", doc,        *)
(* specs]; a spec is a TypeSpec [kind |-> "type", name, struct, fields], a *)
(* ValueSpec [kind |-> "value", names] or an ImportSpec.                   *)
(***************************************************************************)
\* m.Comments[k] = v, m.Examples[k] = v
Put(m, k, v) == [x \in DOMAIN m \cup {k} |-> IF x = k THEN v ELSE m[x]]

\* a scan that went through, and one ended by a runtime panic
Scanned(m) == [ok |-> TRUE, map |-> m]

Crashed == [ok |-> FALSE, map |-> EmptyMap]

\* the file name of a path: filepath.Split's second result
RECURSIVE Base(_)
Base(path) ==
    LET i == Index(path, <<"/">>)
    IN  IF i < 0 THEN path ELSE Base(From(path, i + 2))

\* the key of a file comment
fileKey(path) == Replace(Base(path), ".", "_")

\* ast.Ident.IsExported
IsExported(name) == name # <<>> /\ Head(name) \in UpperChars

NoRecv == [star |-> FALSE, type |-> Str]

\* mutant: the * of a receiver by reference stays in the key
methodKeyStarred(recv, name) ==
    (IF recv.star THEN <<"*">> ELSE <<>>) \o recv.type \o <<".">> \o name

\* the key of a method: the receiver type without its *, a dot, the name
methodKey(recv, name) == recv.type \o <<".">> \o name

\* the fields of a struct type, in order
RECURSIVE scanFields(_, _, _)
scanFields(comments, typeName, fields) ==
    IF fields = <<>> THEN Scanned(comments)
    ELSE LET f == Head(fields)
         IN  IF f.doc = <<>>
             THEN scanFields(comments, typeName, Tail(fields))
             ELSE IF f.names = <<>> THEN Crashed
             ELSE IF IsExported(f.names[1])
             THEN scanFields(
                      Put(comments, typeName \o <<".">> \o f.names[1], f.doc),
                      typeName, Tail(fields))
             ELSE scanFields(comments, typeName, Tail(fields))

\* one top-level declaration
scanDecl(comments, d) ==
    IF d.kind = "func"
    THEN IF d.doc = <<>> THEN Scanned(comments)
         ELSE IF d.recv = NoRecv THEN Scanned(Put(comments, d.name, d.doc))
         ELSE Scanned(Put(comments, methodKey(d.recv, d.name), d.doc))
    ELSE IF d.specs = <<>> THEN Crashed
    ELSE LET s == d.specs[1]
         IN  IF s.kind = "type"
             THEN IF s.struct
                  THEN scanFields(Put(comments, s.name, d.doc), s.name,
                                  s.fields)
                  ELSE Scanned(Put(comments, s.name, d.doc))
             ELSE IF s.kind = "value"
             THEN IF d.doc = <<>> \/ s.names = <<>> THEN Scanned(comments)
                  ELSE Scanned(Put(comments, s.names[1], d.doc))
             ELSE Scanned(comments)

RECURSIVE scanDecls(_, _)
scanDecls(comments, decls) ==
    IF decls = <<>> THEN Scanned(comments)
    ELSE LET r == scanDecl(comments, Head(decls))
         IN  IF r.ok THEN scanDecls(r.map, Tail(decls)) ELSE r

\* one file of scanPkg's loop
scanFile(comments, f) ==
    scanDecls(IF f.doc # <<>> THEN Put(comments, fileKey(f.path), f.doc)
              ELSE comments,
              f.decls)

\* scanPkg over the files fs, in the order the map of files is ranged over
RECURSIVE scanPkg(_, _)
scanPkg(comments, fs) ==
    IF fs = <<>> THEN Scanned(comments)
    ELSE LET r == scanFile(comments, Head(fs))
         IN  IF r.ok THEN scanPkg(r.map, Tail(fs)) ELSE r

TestSuffix == <<"_", "t", "e", "s", "t", ".", "g", "o">>

ExamplePrefix == <<"E", "x", "a", "m", "p", "l", "e">>

RECURSIVE putExamples(_, _)
putExamples(examples, exs) ==
    IF exs = <<>> THEN examples
    ELSE putExamples(Put(examples, ExamplePrefix \o Head(exs).Name, Head(exs)),
                     Tail(exs))

\* scanTests over the files fs, in the order ranged over
RECURSIVE scanTests(_, _)
scanTests(examples, fs) ==
    IF fs = <<>> THEN examples
    ELSE scanTests(IF HasSuffix(Head(fs).path, TestSuffix)
                   THEN putExamples(examples, Head(fs).examples)
                   ELSE examples,
                   Tail(fs))

\* the permutations of a set, as sequences: the orders a Go map can be
\* ranged over
Perms(S) ==
    {p \in [1..Cardinality(S) -> S] : \A a \in S : \E i \in DOMAIN p : p[i] = a}

\* the files of package name, by their place in the directory
FilesIn(files, name) == {i \in DOMAIN files : files[i].pkg = name}

\* the orders each package's map of files can be ranged over
FileOrders(files, names) ==
    {o \in [names -> UNION {Perms(FilesIn(files, n)) : n \in names}] :
        \A n \in names : o[n] \in Perms(FilesIn(files, n))}

\* the files at the places listed in order
FilesOf(files, order) == [k \in 1..Len(order) |-> files[order[k]]]

\* scanDir's loop over the packages in the order pkgs, each package's files
\* ranged over in the order tests[name] by scanTests and scans[name] by
\* scanPkg
RECURSIVE scanDir(_, _, _, _, _)
scanDir(built, files, pkgs, tests, scans) ==
    IF pkgs = <<>> THEN built
    ELSE LET name == Head(pkgs)
             r == scanPkg(built.Comments, FilesOf(files, scans[name]))
         IN  IF ~r.ok THEN [ok |-> FALSE, Comments |-> EmptyMap,
                            Examples |-> EmptyMap]
             ELSE scanDir([ok |-> TRUE, Comments |-> r.map,
                           Examples |->
                               scanTests(built.Examples,
                                   FilesOf(files, tests[name]))],
                          files, Tail(pkgs), tests, scans)

EmptyIndex == [ok |-> TRUE, Comments |-> EmptyMap, Examples |-> EmptyMap]

(***************************************************************************)
(* Inputs of the index builder: a directory of two files.                  *)
(***************************************************************************)
DocA == <<"A", ".", "\n">>

DocB == <<"B", ".", "\n">>

FuncDecl(name, doc) ==
    [kind |-> "func", name |-> name, doc |-> doc, recv |-> NoRecv]

MethodDecl(star, type, name, doc) ==
    [kind |-> "func", name |-> name, doc |-> doc,
     recv |-> [star |-> star, type |-> type]]

GenDecl(doc, specs) == [kind |-> "gen", doc |-> doc, specs |-> specs]

TypeSpec(name, struct, fields) ==
    [kind |-> "type", name |-> name, struct |-> struct, fields |-> fields]

Field(names, doc) == [names |-> names, doc |-> doc]

ValueSpec(names) == [kind |-> "value", names |-> names]

ImportSpec == [kind |-> "import"]

DeclPool ==
    { FuncDecl(<<"F">>, DocA), FuncDecl(<<"F">>, DocB), FuncDecl(<<"G">>, Str),
      MethodDecl(FALSE, <<"T">>, <<"M">>, DocA),
      MethodDecl(TRUE, <<"T">>, <<"M">>, DocB),
      MethodDecl(TRUE, <<"T">>, <<"N">>, Str),
      GenDecl(DocA, <<TypeSpec(<<"T">>, FALSE, <<>>)>>),
      GenDecl(Str, <<TypeSpec(<<"T">>, TRUE,
                       << Field(<<<<"X">>>>, DocA), Field(<<<<"y">>>>, DocB),
                          Field(<<<<"Z">>>>, Str) >>)>>),
      GenDecl(DocB, <<TypeSpec(<<"S">>, TRUE, <<Field(<<>>, DocA)>>)>>),
      GenDecl(DocA, <<ValueSpec(<<<<"V">>, <<"W">>>>)>>),
      GenDecl(Str, <<ValueSpec(<<<<"V">>>>)>>),
      GenDecl(Str, <<ImportSpec>>),
      GenDecl(Str, <<>>) }

PathA == <<"d", "/", "a", ".", "g", "o">>

PathB == <<"d", "/", "b", "_", "t", "e", "s", "t", ".", "g", "o">>

PkgP == <<"p">>

PkgPTest == <<"p", "_", "t", "e", "s", "t">>

\* the example of the test file
ExampleFoo ==
    [Name |-> <<"F", "o", "o">>, IsBlock |-> TRUE,
     Printed |-> <<"{", "\n", "\t", "f", "(", ")", "\n", "}">>,
     Output |-> Str,
     Play |-> [formats |-> TRUE,
               text |-> <<"m", "{", "\n", "\t", "f", "(", ")", "\n", "}",
                          "\n">>]]

\* directories: a.go of package p and b_test.go of package p or p_test
Dirs ==
    { [parses |-> TRUE,
       files |-> << [path |-> PathA, pkg |-> PkgP, doc |-> da, decls |-> a,
                     examples |-> <<>>],
                    [path |-> PathB, pkg |-> pb, doc |-> Str, decls |-> b,
                     examples |-> <<ExampleFoo>>] >>] :
        da \in {Str, <<"D", ".", "\n">>}, pb \in {PkgP, PkgPTest},
        a \in SeqsOf(DeclPool, 0, MaxDecls),
        b \in SeqsOf(DeclPool, 0, MaxDecls) }
    \cup {[parses |-> FALSE, files |-> <<>>]}

PkgNames(d) == {d.files[i].pkg : i \in DOMAIN d.files}

BuildInit ==
    /\ dir \in Dirs
    /\ Comments = EmptyMap
    /\ Examples = EmptyMap
    /\ pc = "new"
    /\ call = NoCall
    /\ result = NoResult

\* NewCodeMap: parser.ParseDir, then scanDir's loops in the orders the maps
\* of packages and of files happen to be ranged over
NewCodeMap ==
    /\ pc = "new"
    /\ IF ~dir.parses
       THEN /\ pc' = "error"
            /\ UNCHANGED <<Comments, Examples>>
       ELSE \E pkgs \in Perms(PkgNames(dir)) :
            \E tests \in FileOrders(dir.files, PkgNames(dir)) :
            \E scans \in FileOrders(dir.files, PkgNames(dir)) :
              LET m == scanDir(EmptyIndex, dir.files, pkgs, tests, scans)
              IN  /\ pc' = IF m.ok THEN "built" ELSE "panic"
                  /\ Comments' = m.Comments
                  /\ Examples' = m.Examples
    /\ UNCHANGED <<dir, call, result>>

BuildNext == NewCodeMap

SpecBuild == BuildInit /\ [][BuildNext]_vars

(***************************************************************************)
(* The example renderer: ExampleFunc, OutputFunc, PlaygroundFunc.          *)
(*                                                                         *)
(* An example is [Name, IsBlock, Printed, Output, Play]: Printed is what   *)
(* printer.Fprint writes for its code and comments, Play what format.Node  *)
(* writes for its playground file, or the failure to format it.            *)
(***************************************************************************)
\* strings.Replace(s, old, new, -1) for a non-empty old
RECURSIVE ReplaceAll(_, _, _)
ReplaceAll(s, old, new) ==
    IF s = <<>> THEN <<>>
    ELSE IF HasPrefixAt(s, 1, old)
    THEN new \o ReplaceAll(From(s, Len(old) + 1), old, new)
    ELSE <<Head(s)>> \o ReplaceAll(Tail(s), old, new)

\* strings.TrimSpace
TrimSpace(s) == Trim(s, {" ", "\t", "\n", "\r"})

\* the marker the plain rendering is cut at
OutputMarker ==
    <<"\n", "\t", "/", "/", " ", "O", "u", "t", "p", "u", "t", ":">>

\* the backquote character, which a TLA+ string cannot hold
Backquote == "BACKQUOTE"

Fence == <<Backquote, Backquote, Backquote>>

\* the closure ExampleFunc(plain) returns, applied to in
ExampleFunc(examples, plain, in) ==
    IF in \notin DOMAIN examples THEN Panic("NotFound", -1, -1, in)
    ELSE LET e == examples[in]
             printed == e.Printed
             fixed == IF HasSuffix(printed, <<"\n", "\n", "}">>)
                      THEN SubSeq(printed, 1, Len(printed) - 2) \o <<"}">>
                      ELSE printed
             cut == IF Contains(fixed, OutputMarker)
                    THEN SubSeq(fixed, 1, Index(fixed, OutputMarker))
                             \o <<"\n", "}">>
                    ELSE fixed
             inner == SubSeq(printed, 2, Len(printed) - 1)
             buf == IF e.IsBlock
                    THEN TrimSpace(ReplaceAll(inner, <<"\n", "\t">>, <<"\n">>))
                    ELSE printed
         IN  IF plain THEN Ok(cut)
             ELSE Ok(Fence \o <<"g", "o", "\n">> \o Trim(buf, {"\n"})
                         \o <<"\n">> \o Fence)

OutputFunc(examples, in) ==
    IF in \notin DOMAIN examples THEN Panic("NotFound", -1, -1, in)
    ELSE Ok(Trim(examples[in].Output, {"\n"}))

PlaygroundFunc(examples, in) ==
    IF in \notin DOMAIN examples THEN Panic("NotFound", -1, -1, in)
    ELSE LET play == examples[in].Play
         IN  IF ~play.formats THEN Panic("FormatFailed", -1, -1, in)
             ELSE IF HasSuffix(play.text, <<"\n", "\n", "}", "\n">>)
             THEN Ok(SubSeq(play.text, 1, Len(play.text) - 3) \o <<"}">>)
             ELSE Ok(play.text)

(***************************************************************************)
(* Inputs of the example renderer: the examples doc.Examples can capture.  *)
(***************************************************************************)
\* a body line: a statement, a comment, a comment that reads as the marker
BodyLines ==
    { <<"f", "(", ")">>, <<"/", "/", " ", "x">>,
      <<"/", "/", " ", "O", "u", "t", "p", "u", "t", ":">> }

\* the comment opening the trailing output block, in the forms doc.Examples
\* takes for one ((?i)^[[:space:]]*(unordered )?output:), or none
MarkerComments ==
    { <<>>,
      <<"/", "/", " ", "O", "u", "t", "p", "u", "t", ":">>,
      <<"/", "/", " ", "o", "u", "t", "p", "u", "t", ":">>,
      <<"/", "/", "O", "u", "t", "p", "u", "t", ":">>,
      <<"/", "/", " ", "U", "n", "o", "r", "d", "e", "r", "e", "d", " ",
        "o", "u", "t", "p", "u", "t", ":">> }

\* each line on its own, indented by one tab
Indented(lines) ==
    Flatten([k \in 1..Len(lines) |-> <<"\n", "\t">> \o lines[k]])

\* the printed block of an example: its body lines, its output block if it
\* has one, and the blank line the printer may leave before the brace
PrintedBlock(body, marker, blank) ==
    <<"{">> \o Indented(body)
        \o (IF marker = <<>> THEN <<>>
            ELSE Indented(<<marker, <<"/", "/", " ", "x">>>>))
        \o (IF blank THEN <<"\n">> ELSE <<>>) \o <<"\n", "}">>

CapturedExamples ==
    { [Name |-> <<"F", "o", "o">>, IsBlock |-> TRUE,
       Printed |-> PrintedBlock(body, marker, blank),
       Output |-> IF marker = <<>> THEN Str ELSE <<"x", "\n">>,
       Play |-> [formats |-> formats,
                 text |-> <<"m">> \o PrintedBlock(body, <<>>, blank)
                              \o <<"\n">>]] :
        body \in SeqsOf(BodyLines, 0, MaxLines), marker \in MarkerComments,
        blank \in BOOLEAN, formats \in BOOLEAN }

ExampleNames == {ExamplePrefix \o <<"F", "o", "o">>, ExamplePrefix}

ExampleInit ==
    /\ \E e \in CapturedExamples :
         Examples = (ExamplePrefix \o e.Name :> e)
    /\ Comments = EmptyMap
    /\ dir = <<>>
    /\ pc = "built"
    /\ call = NoCall
    /\ result = NoResult

\* {{ example "Name" }} and {{ code "Name" }}
RenderCode ==
    /\ pc = "built"
    /\ call = NoCall
    /\ \E in \in ExampleNames, plain \in BOOLEAN :
         /\ call' = [op |-> "ExampleFunc", in |-> in, plain |-> plain]
         /\ result' = ExampleFunc(Examples, plain, in)
    /\ UNCHANGED <<Comments, Examples, dir, pc>>

\* {{ output "Name" }}
RenderOutput ==
    /\ pc = "built"
    /\ call = NoCall
    /\ \E in \in ExampleNames :
         /\ call' = [op |-> "OutputFunc", in |-> in, plain |-> FALSE]
         /\ result' = OutputFunc(Examples, in)
    /\ UNCHANGED <<Comments, Examples, dir, pc>>

\* {{ play "Name" }}
RenderPlayground ==
    /\ pc = "built"
    /\ call = NoCall
    /\ \E in \in ExampleNames :
         /\ call' = [op |-> "PlaygroundFunc", in |-> in, plain |-> FALSE]
         /\ result' = PlaygroundFunc(Examples, in)
    /\ UNCHANGED <<Comments, Examples, dir, pc>>

ExampleNext == RenderCode \/ RenderOutput \/ RenderPlayground

SpecExample == ExampleInit /\ [][ExampleNext]_vars

(***************************************************************************)
(* The vocabulary of the properties of the slice resolver.                 *)
(***************************************************************************)
\* the request made and the doc text it is resolved against
Asked == call.op = "DocFunc"

Text == Comments[K]

\* the SentenceList of a text: the pieces between terminators, trimmed,
\* without the empty ones
SentenceList(text) ==
    LET pieces == Split(text, ".")
        trimmed == [k \in 1..Len(pieces) |-> Trim(pieces[k], {" ", "\n"})]
    IN  SelectSeq(trimmed, LAMBDA t : t # <<>>)

NSent == Len(SentenceList(Text))

\* the number of terminators in a string
Dots(s) == Cardinality({k \in 1..Len(s) : s[k] = "."})

\* a token's explicit bounds, -1 for a bound it does not write
TokStart(t) ==
    IF bothRegex(t) THEN mustInt(SubSeq(t, 1, Colon(t) - 1))
    ELSE IF fromRegex(t) THEN mustInt(SubSeq(t, 1, Len(t) - 1))
    ELSE IF singleRegex(t) THEN mustInt(t)
    ELSE -1

TokEnd(t) ==
    IF bothRegex(t) THEN mustInt(From(t, Colon(t) + 1))
    ELSE IF toRegex(t) THEN mustInt(Tail(t))
    ELSE -1

HasForm(t) == bothRegex(t) \/ fromRegex(t) \/ toRegex(t) \/ singleRegex(t)

\* the 0-based positions a token selects among n sentences
Selected(t, n) ==
    LET lo == IF TokStart(t) < 0 THEN 0 ELSE TokStart(t)
        hi == IF singleRegex(t) THEN lo + 1
              ELSE IF TokEnd(t) < 0 THEN n ELSE TokEnd(t)
    IN  [k \in 1..(hi - lo) |-> lo + k - 1]

\* a token the bounds rules accept against n sentences
ValidToken(t, n) ==
    /\ HasForm(t)
    /\ TokEnd(t) # 0
    /\ TokStart(t) < n
    /\ TokEnd(t) < n
    /\ (TokStart(t) >= 0 /\ TokEnd(t) >= 0) => TokStart(t) < TokEnd(t)

\* the last token of the request
Last == call.tokens[Len(call.tokens)]

\* all tokens before the last are valid against n sentences
EarlierValid(n) ==
    \A k \in 1..(Len(call.tokens) - 1) : ValidToken(call.tokens[k], n)

\* the positions the whole request selects among n sentences, in the order
\* listed
AllSelected(n) ==
    Flatten([k \in 1..Len(call.tokens) |-> Selected(call.tokens[k], n)])

\* the sentences at the positions ps
Picked(list, ps) == [k \in 1..Len(ps) |-> list[ps[k] + 1]]

(***************************************************************************)
(* C1.  For every doc text with N sentences and every token i:j with       *)
(* 0 <= i < j <= N (j = N included), the resolver succeeds and returns     *)
(* exactly the sentences i .. j-1, in order, each followed by ".".         *)
(* Stated as written; the code refuses j = N.                              *)
(***************************************************************************)
RangeTokenCase(n) ==
    /\ Asked
    /\ Len(call.tokens) = 1
    /\ bothRegex(Last)
    /\ TokStart(Last) < TokEnd(Last)
    /\ TokEnd(Last) <= n

\* C1: a lone token i:j with 0 <= i < j <= N returns exactly the sentences
\* i .. j-1, in order, each followed by "."
C1_RangeReturnsItsSentences ==
    LET list == SentenceList(Text)
    IN  RangeTokenCase(Len(list)) =>
            /\ result.kind = "ok"
            /\ SentenceList(result.text) =
                   Picked(list, Selected(Last, Len(list)))
            /\ Dots(result.text) = TokEnd(Last) - TokStart(Last)

(***************************************************************************)
(* C2.  A spec of several tokens, all valid, is evaluated in the order     *)
(* listed, neither sorted nor deduplicated: the sentences of the result    *)
(* are those of the first token, then those of the second, and so on.      *)
(***************************************************************************)
SeveralValidCase(n) ==
    /\ Asked
    /\ Len(call.tokens) >= 2
    /\ \A k \in 1..Len(call.tokens) : ValidToken(call.tokens[k], n)

\* C2: the sentences of the result are those the tokens select, token by
\* token in the order listed, repeated as often as they are listed
C2_TokensInListedOrder ==
    LET list == SentenceList(Text)
        sel == AllSelected(Len(list))
    IN  SeveralValidCase(Len(list)) =>
            /\ result.kind = "ok"
            /\ SentenceList(result.text) = Picked(list, sel)
            /\ Dots(result.text) = Len(sel)

\* C2 witness: the spec "2,0,2" against three sentences, the first unlike
\* the third
C2_Witness ==
    LET list == SentenceList(Text)
    IN  /\ SeveralValidCase(Len(list))
        /\ call.tokens = <<<<"2">>, <<"0">>, <<"2">>>>
        /\ list[1] # list[3]
        /\ SentenceList(result.text) = <<list[3], list[1], list[3]>>

(***************************************************************************)
(* C3.  A token whose explicit start or explicit end is an index >= N      *)
(* fails with the out-of-range panic naming that index and N, and no       *)
(* excerpt is returned, also after valid tokens.                           *)
(***************************************************************************)
OutOfRangeCase(n) ==
    /\ Asked
    /\ HasForm(Last)
    /\ TokStart(Last) >= n \/ (TokEnd(Last) >= 0 /\ TokEnd(Last) >= n)
    /\ EarlierValid(n)

\* C3: as written: the last token of the request, having an explicit bound
\* >= N, fails with the out-of-range panic naming such a bound and N
C3_OutOfRangeNamesIndex ==
    LET n == NSent
    IN  OutOfRangeCase(n) =>
            /\ result.kind = "OutOfRange"
            /\ result.length = n
            /\ result.index >= n
            /\ result.index \in {TokStart(Last), TokEnd(Last)}

\* C3: as the code has it: such a token fails, with the end-is-zero panic
\* when its explicit end is 0, and otherwise with the out-of-range panic
\* naming N and the start when the start is >= N, the end when it is not
C3_OutOfRangeAfterEndZero ==
    LET n == NSent
    IN  OutOfRangeCase(n) =>
            /\ result.text = <<>>
            /\ IF TokEnd(Last) = 0
               THEN result.kind = "EndZero"
               ELSE /\ result.kind = "OutOfRange"
                    /\ result.length = n
                    /\ result.index = IF TokStart(Last) >= n
                                      THEN TokStart(Last) ELSE TokEnd(Last)

\* C3 witness: index 3 against three sentences, after a valid token
C3_Witness ==
    /\ OutOfRangeCase(NSent)
    /\ Len(call.tokens) >= 2
    /\ NSent = 3
    /\ result.kind = "OutOfRange" /\ result.index = 3 /\ result.length = 3
    /\ result.text = <<>>

(***************************************************************************)
(* C4.  A token i:j with start >= end fails with the order panic and       *)
(* returns no excerpt.                                                     *)
(***************************************************************************)
OrderCase(n) ==
    /\ Asked
    /\ bothRegex(Last)
    /\ TokStart(Last) >= TokEnd(Last)
    /\ EarlierValid(n)

\* C4: as written: a token i:j with i >= j fails with the order panic
C4_StartNotBelowEndIsOrderError ==
    OrderCase(NSent) => result.kind = "Order"

\* C4: as the code has it: a token i:j with i >= j fails and returns no
\* excerpt, with the end-is-zero panic when j = 0, else with the
\* out-of-range panic naming i and N when i >= N, else with the order panic
C4_OrderErrorAfterRangeChecks ==
    LET n == NSent
    IN  OrderCase(n) =>
            /\ result.text = <<>>
            /\ result.kind = IF TokEnd(Last) = 0 THEN "EndZero"
                             ELSE IF TokStart(Last) >= n THEN "OutOfRange"
                             ELSE "Order"
            /\ result.kind = "OutOfRange" =>
                   result.index = TokStart(Last) /\ result.length = n

\* C4 witness: "2:1" against three sentences
C4_Witness ==
    /\ OrderCase(NSent)
    /\ Last = <<"2", ":", "1">>
    /\ NSent = 3
    /\ result.kind = "Order"

(***************************************************************************)
(* C8.  Every selected sentence appears in the result trimmed of its       *)
(* surrounding spaces and line breaks and followed by "."; the result has  *)
(* no leading or trailing space.                                           *)
(***************************************************************************)
NoOuterSpace(s) == s = <<>> \/ (Head(s) # " " /\ s[Len(s)] # " ")

\* each of the sentences ss followed by "."
Terminated(ss) == Flatten([k \in 1..Len(ss) |-> ss[k] \o <<".">>])

\* C8: as written: the result is the selected sentences, each trimmed and
\* followed by ".", and has no leading or trailing space
C8_SentencesTrimmed ==
    (Asked /\ result.kind = "ok") =>
        LET list == SentenceList(Text)
        IN  /\ result.text = Terminated(Picked(list, AllSelected(Len(list))))
            /\ NoOuterSpace(result.text)

\* C8: as the code has it: the result is the selected sentences as they
\* stand in the doc text, spaces and line breaks kept, each followed by ".",
\* and only the result as a whole is trimmed of leading and trailing spaces
C8_SentencesAsInText ==
    (Asked /\ result.kind = "ok") =>
        LET raw == Sentances(Text)
        IN  /\ result.text =
                   Trim(Terminated(Picked(raw, AllSelected(Len(raw)))), {" "})
            /\ NoOuterSpace(result.text)

\* C8 witness: a result whose first sentence lost its leading space and
\* whose second kept its own
C8_Witness ==
    LET raw == Sentances(Text)
        sel == AllSelected(Len(raw))
    IN  /\ Asked /\ result.kind = "ok"
        /\ Len(sel) >= 2
        /\ Head(raw[sel[1] + 1]) = " "
        /\ Head(raw[sel[2] + 1]) = " "
        /\ Head(result.text) # " "
        /\ Contains(result.text, <<".", " ">>)

(***************************************************************************)
(* C9.  A sliced lookup K[sliceSpec] of a key K of the doc mapping, dotted *)
(* keys included, resolves sliceSpec against the doc text stored under     *)
(* exactly K, and fails with the not-found panic only if K is absent.      *)
(* Stated as written; the code's \w+ stops at the dot of a dotted key.     *)
(***************************************************************************)
\* C9: a sliced lookup of a key of the mapping resolves against that key's
\* text, and is not-found only if the key is absent
C9_SlicedLookupUsesItsKey ==
    (call.op = "DocFunc" /\ call.sliced) =>
        /\ call.key \in DOMAIN Comments =>
               result = extractSections(call.in, call.sections,
                                        Comments[call.key])
        /\ result.kind = "NotFound" => call.key \notin DOMAIN Comments

(***************************************************************************)
(* The vocabulary of the properties of the index builder.                  *)
(***************************************************************************)
Built == pc = "built"

\* the declarations of the directory
DirDecls ==
    UNION {{dir.files[i].decls[k] : k \in DOMAIN dir.files[i].decls} :
              i \in DOMAIN dir.files}

Functions == {d \in DirDecls : d.kind = "func" /\ d.recv = NoRecv}

Methods == {d \in DirDecls : d.kind = "func" /\ d.recv # NoRecv}

(***************************************************************************)
(* C5.  After build, every documented function is in the doc mapping       *)
(* under its own name and every documented method under                    *)
(* "HostType.MethodName", whether its receiver is T or *T.                 *)
(***************************************************************************)
\* C5: every documented function is keyed by its name, every documented
\* method by "HostType.MethodName"
C5_FunctionsAndMethodsKeyed ==
    Built =>
        /\ \A d \in Functions : d.doc # <<>> => d.name \in DOMAIN Comments
        /\ \A d \in Methods : d.doc # <<>> =>
               (d.recv.type \o <<".">> \o d.name) \in DOMAIN Comments

\* C5 witness: a documented function and a documented method of *T, both
\* indexed
C5_Witness ==
    /\ Built
    /\ \E d \in Functions : d.doc # <<>> /\ d.name \in DOMAIN Comments
    /\ \E d \in Methods :
         /\ d.doc # <<>> /\ d.recv.star
         /\ Comments[d.recv.type \o <<".">> \o d.name] = d.doc

(***************************************************************************)
(* C7.  After build, every entry of the doc mapping has non-empty doc      *)
(* text: a declaration of any kind with an empty doc comment contributes   *)
(* no key.  Stated as written; the code indexes a type whatever its doc.   *)
(***************************************************************************)
\* C7: no entry of the doc mapping has an empty doc text
C7_NoEmptyDocEntry ==
    Built => \A k \in DOMAIN Comments : Comments[k] # <<>>

(***************************************************************************)
(* C10.  Build is deterministic: whatever order the packages and files are *)
(* visited in, the doc and example mappings are those of the build that    *)
(* visits them in the order of the directory listing.  Stated as written;  *)
(* the code ranges over Go maps, and the last visited of two declarations  *)
(* of one key survives.                                                    *)
(***************************************************************************)
\* the build that visits packages and files in listing order
ListedPkgs ==
    IF Cardinality(PkgNames(dir)) = 1 THEN <<dir.files[1].pkg>>
    ELSE <<dir.files[1].pkg, dir.files[2].pkg>>

\* the files of package n in listing order
Listed(n) ==
    CHOOSE o \in Perms(FilesIn(dir.files, n)) :
        \A a, b \in DOMAIN o : a < b => o[a] < o[b]

ListedBuild ==
    scanDir(EmptyIndex, dir.files, ListedPkgs,
            [n \in PkgNames(dir) |-> Listed(n)],
            [n \in PkgNames(dir) |-> Listed(n)])

\* C10: every build of a directory yields the mappings of the build in
\* listing order
C10_BuildDeterministic ==
    Built => Comments = ListedBuild.Comments /\ Examples = ListedBuild.Examples

(***************************************************************************)
(* C6.  The non-annotated rendering of an example contains no              *)
(* output-assertion marker, whatever form the output-assertion comment had *)
(* in the captured source, and still ends with the closing delimiter.      *)
(* Stated as written; the code cuts at "// Output:" only.                  *)
(***************************************************************************)
ToLower(s) ==
    [k \in 1..Len(s) |->
        IF s[k] \in UpperChars
        THEN Lower[CHOOSE i \in 1..Len(Upper) : Upper[i] = s[k]]
        ELSE s[k]]

\* whether s holds an output-assertion comment in any of its forms
HasMarker(s) ==
    \E m \in MarkerComments \ {<<>>} : Contains(ToLower(s), ToLower(m))

\* C6: the plain rendering holds no output-assertion marker and ends "}"
C6_PlainHasNoOutputMarker ==
    (call.op = "ExampleFunc" /\ call.plain /\ result.kind = "ok") =>
        /\ ~HasMarker(result.text)
        /\ HasSuffix(result.text, <<"}">>)

====
